---- MODULE Spec2Model ----
(***************************************************************************)
(* Model of the taxonomic ancestor resolution pipeline:                    *)
(*   scripts/find_mrca.py   - naming of internal nodes, name index, MRCA   *)
(*                            of the candidates and the anchor, metrics    *)
(*   get_nr_subtree.py      - the collapse filter (MRCA+N versus mapping)  *)
(*                                                                         *)
(* A tree is a record [parent, name] of two sequences over the nodes       *)
(* 1..n.  Nodes are numbered in level order (the order of ete3's default   *)
(* tree.traverse()): node 1 is the root, parent[1] = 0 stands for None.    *)
(* An unnamed node has the name "" (ete3's default name), which is falsy   *)
(* in the Python tests `if node.name`.                                     *)
(***************************************************************************)
EXTENDS Integers, Sequences, FiniteSets, TLC

\* ------------------------------------------------------------------ bounds
MaxNodes == 3      \* nodes of a generated tree
MaxFields == 3     \* fields of the taxid file: a query id and its ids per row
MaxLevels == 2     \* largest --levels-up
MaxLines == 2      \* input lines of the collapse filter
MaxRows == 2       \* rows of the alignment table, and largest --chunksize
MaxLcaLines == 2   \* lines of the batch LCA input, and largest --threads

\* ----------------------------------------------------------------- helpers
Range(s) == {s[i] : i \in DOMAIN s}

SeqsUpTo(S, n) == UNION {[1..k -> S] : k \in 0..n}

Nodes(t) == 1..Len(t.parent)

\* node.is_leaf()
IsLeaf(t, n) == \A m \in Nodes(t) : t.parent[m] # n

\* n, n.up, n.up.up, ... up to the root
RECURSIVE UpChain(_, _)
UpChain(t, n) == IF n = 0 THEN <<>> ELSE <<n>> \o UpChain(t, t.parent[n])

\* the nodes of the subtree rooted at n
Subtree(t, n) == {m \in Nodes(t) : n \in Range(UpChain(t, m))}

\* set(node.get_leaf_names())
LeafNames(t, n) == {t.name[m] : m \in {x \in Subtree(t, n) : IsLeaf(t, x)}}

\* ------------------------------------------------------------ input trees
\* level-order shapes: every node after the root hangs under an earlier
\* node, and parents do not decrease along the numbering
Shapes(n) ==
    {p \in [1..n -> 0..(n - 1)] :
        /\ p[1] = 0
        /\ \A i \in 2..n : p[i] >= 1 /\ p[i] < i
        /\ \A i \in 3..n : p[i - 1] <= p[i]}

GenNames == {"", "A"}

GenTrees ==
    UNION {{[parent |-> p, name |-> nm] : p \in Shapes(n), nm \in [1..n -> GenNames]}
           : n \in 1..MaxNodes}

\* ((A:1,B:1)N1:1,(C:1,D:1)N2:1)Root:1;
ScenarioTree ==
    [parent |-> <<0, 1, 1, 2, 2, 3, 3>>,
     name   |-> <<"Root", "N1", "N2", "A", "B", "C", "D">>]

\* (Internal_1,A); a leaf already bears the first name the pass hands out
CollisionTree ==
    [parent |-> <<0, 1, 1>>,
     name   |-> <<"", "Internal_1", "A">>]

Trees == GenTrees \cup {ScenarioTree, CollisionTree}

\* ------------------------------------------- assign_internal_node_names
\* variant: the loop stops after the first name it assigns
RECURSIVE AssignLoop_once(_, _, _)
AssignLoop_once(names, i, counter) ==
    IF i > Len(names) THEN names
    ELSE IF names[i] = ""
         THEN [names EXCEPT ![i] = "Internal_" \o ToString(counter)]
         ELSE AssignLoop_once(names, i + 1, counter)

\* the loop of lines 29-33 from node i on, counter being the next number
RECURSIVE AssignLoop(_, _, _)
AssignLoop(names, i, counter) ==
    IF i > Len(names) THEN names
    ELSE IF names[i] = ""
         THEN AssignLoop([names EXCEPT ![i] = "Internal_" \o ToString(counter)],
                         i + 1, counter + 1)
         ELSE AssignLoop(names, i + 1, counter)

all_annotated(t) == \A n \in Nodes(t) : ~IsLeaf(t, n) => t.name[n] # ""

\* the tree after the call and the value returned
assign_internal_node_names(t) ==
    IF all_annotated(t)
    THEN [tree |-> t, modified |-> FALSE]
    ELSE [tree |-> [t EXCEPT !.name = AssignLoop(t.name, 1, 1)], modified |-> TRUE]

\* ------------------------------------------------------ find_mrca: index
RECURSIVE NodesNamed(_, _, _)
NodesNamed(t, nm, i) ==
    IF i > Len(t.name) THEN <<>>
    ELSE (IF t.name[i] = nm THEN <<i>> ELSE <<>>) \o NodesNamed(t, nm, i + 1)

\* variant: a name keeps only the first node bearing it
taxon_nodes_first(t) ==
    [nm \in {t.name[n] : n \in Nodes(t)} \ {""} |-> <<NodesNamed(t, nm, 1)[1]>>]

\* name -> the nodes bearing it, in traversal order; unnamed nodes are left out
taxon_nodes(t) ==
    [nm \in {t.name[n] : n \in Nodes(t)} \ {""} |-> NodesNamed(t, nm, 1)]

\* tree & anchor_specie: the first node of the traversal bearing the name
SearchFirst(t, nm) ==
    CHOOSE n \in Nodes(t) :
        t.name[n] = nm /\ \A m \in Nodes(t) : t.name[m] = nm => n <= m

\* ------------------------------------------------- find_mrca: one query
Sentinels == {"no_hit", "no_valid_taxid"}

\* [x for x in s if x not in drop]
RECURSIVE Filter(_, _)
Filter(s, drop) ==
    IF s = <<>> THEN <<>>
    ELSE (IF Head(s) \in drop THEN <<>> ELSE <<Head(s)>>) \o Filter(Tail(s), drop)

RECURSIVE Flatten(_)
Flatten(ss) == IF ss = <<>> THEN <<>> ELSE Head(ss) \o Flatten(Tail(ss))

\* variant: the last target is left out of the comparison
get_common_ancestor_skip_last(t, target_nodes) ==
    LET targets == IF Len(target_nodes) = 1 /\ target_nodes[1] # 1
                   THEN <<target_nodes[1], 1>>
                   ELSE target_nodes
        ref_node == targets[1]
        reference == UpChain(t, ref_node)
        Common(n) == \A i \in 1..(Len(targets) - 1) :
                        targets[i] # ref_node => n \in Range(UpChain(t, targets[i]))
        k == CHOOSE j \in DOMAIN reference :
                /\ Common(reference[j])
                /\ \A h \in 1..(j - 1) : ~Common(reference[h])
    IN reference[k]

\* tree.get_common_ancestor(flat_taxa), called on the root.  ete3 takes a
\* lone target together with the node the method is called on, walks the
\* chain of the first target upwards and returns the first node of it that
\* lies on the chain of every other target.
get_common_ancestor(t, target_nodes) ==
    LET targets == IF Len(target_nodes) = 1 /\ target_nodes[1] # 1
                   THEN <<target_nodes[1], 1>>
                   ELSE target_nodes
        ref_node == targets[1]
        reference == UpChain(t, ref_node)
        Common(n) == \A i \in DOMAIN targets :
                        targets[i] # ref_node => n \in Range(UpChain(t, targets[i]))
        k == CHOOSE j \in DOMAIN reference :
                /\ Common(reference[j])
                /\ \A h \in 1..(j - 1) : ~Common(reference[h])
    IN reference[k]

\* f"{observed_count / total_count:.2f}".  The quotient is rounded to
\* hundredths, ties to even (a tie is a dyadic quotient for every total
\* below 40, so the float holds it exactly).
Format2f(observed_count, total_count) ==
    LET q == (100 * observed_count) \div total_count
        r == (100 * observed_count) % total_count
        h == IF 2 * r > total_count \/ (2 * r = total_count /\ q % 2 = 1)
             THEN q + 1 ELSE q
    IN ToString(h \div 100) \o "." \o ToString((h % 100) \div 10) \o ToString(h % 10)

\* lines 75-76
Taxa(t, anchor, valid) ==
    LET idx == taxon_nodes(t)
        RECURSIVE Lists(_)
        Lists(s) == IF s = <<>> THEN <<>>
                    ELSE (IF Head(s) \in DOMAIN idx THEN <<idx[Head(s)]>> ELSE <<>>)
                         \o Lists(Tail(s))
    IN Lists(valid) \o <<<<anchor>>>>

\* lines 83-89: the leaf names under every node of every indexed candidate
ObservedLeaves(t, valid) ==
    LET idx == taxon_nodes(t)
    IN UNION {LeafNames(t, n) :
                n \in UNION {Range(idx[tid]) : tid \in Range(valid) \cap DOMAIN idx}}

\* lines 88-89: one warning per candidate without an index entry, in order
RECURSIVE NotFoundWarnings(_, _)
NotFoundWarnings(t, valid) ==
    IF valid = <<>> THEN <<>>
    ELSE (IF Head(valid) \in DOMAIN taxon_nodes(t) THEN <<>>
          ELSE <<"Warning: taxid " \o Head(valid) \o " not found in taxon_nodes">>)
         \o NotFoundWarnings(t, Tail(valid))

\* lines 92-97
SpeciesPercentage(t, m, observed) ==
    LET leaves_under_mrca == LeafNames(t, m)
        observed_count == Cardinality(leaves_under_mrca \cap observed)
        total_count == Cardinality(leaves_under_mrca)
    IN IF total_count > 0 THEN Format2f(observed_count, total_count) ELSE "0.00"

\* variant: the MRCA itself is not appended to the path
RECURSIVE PathToMrca_exclusive(_, _, _)
PathToMrca_exclusive(t, current_node, m) ==
    IF current_node = m THEN <<>>
    ELSE <<current_node>> \o PathToMrca_exclusive(t, t.parent[current_node], m)

\* lines 102-106: anchor, anchor.up, ... up to and including the MRCA
RECURSIVE PathToMrca(_, _, _)
PathToMrca(t, current_node, m) ==
    IF current_node = m THEN <<m>>
    ELSE <<current_node>> \o PathToMrca(t, t.parent[current_node], m)

\* variant: a node that brings no new leaf is left out of the vector
RECURSIVE Activation_skip(_, _, _, _)
Activation_skip(t, path, leaves_seen, observed) ==
    IF path = <<>> THEN <<>>
    ELSE LET leaves_under_node == LeafNames(t, Head(path))
             new_species == leaves_under_node \ leaves_seen
             total_new_species == Cardinality(new_species)
         IN (IF total_new_species > 0
             THEN <<<<Cardinality(new_species \cap observed), total_new_species>>>>
             ELSE <<>>) \o
            Activation_skip(t, Tail(path), leaves_seen \cup leaves_under_node, observed)

\* lines 107-116: the proportions as fractions <<numerator, denominator>>
RECURSIVE Activation(_, _, _, _)
Activation(t, path, leaves_seen, observed) ==
    IF path = <<>> THEN <<>>
    ELSE LET leaves_under_node == LeafNames(t, Head(path))
             new_species == leaves_under_node \ leaves_seen
             total_new_species == Cardinality(new_species)
             proportion == IF total_new_species > 0
                           THEN <<Cardinality(new_species \cap observed), total_new_species>>
                           ELSE <<0, 1>>
         IN <<proportion>> \o
            Activation(t, Tail(path), leaves_seen \cup leaves_under_node, observed)

Flag(text) == [text |-> text, vector |-> <<>>]
Vector(v) == [text |-> "", vector |-> v]

\* ------------------------------------------------------- find_mrca: state
VARIABLES
    pc,              \* "start" (before line 38), "loop" (lines 56-129), "done"
    tree_file,       \* the tree read by the current run
    tree,            \* the tree in memory
    modified,        \* the value assign_internal_node_names returned
    anchor_node,     \* tree & anchor_specie
    method,          \* "species_percentage" or "node_activation"
    fields_read,     \* fields of the taxid file consumed by the loop so far
    taxids,          \* the candidate list of the query handled last
    mrca,            \* the loop's local: a node, 0 for unbound/None
    metric,          \* the loop's local
    observed_leaves, \* the loop's local
    results,         \* rows [qseqid, mrca name, metric]
    mrca_count,      \* name -> number of queries resolved to it
    lca_calls,       \* calls of tree.get_common_ancestor in this run
    stdout,          \* the warnings and notices printed by this run
    output_tree,     \* the output tree file: <<>> or <<the tree written>>
    output_file      \* the report: <<>> or <<header, rows>>

\* --------------------------------------------------- get_nr_subtree: state
VARIABLES
    original_tree,    \* Tree(original_tree_file, format=1)
    mapping_dict,     \* node name -> <<taxon name, taxid>>
    levels_up,        \* --levels-up
    include_topology, \* --include-topology
    line,             \* the fields of the input line handled last
    old_out_f,        \* the records written to the old output
    new_out_f,        \* the records written to the new output
    console,          \* the results of process_line that were printed
    lines_read        \* input lines handled so far, the header not counted

\* ---------------------------- extract_taxid_optimized_parallel: state
VARIABLES
    table,            \* the rows of the alignment table
    use_taxid,        \* detect_columns: the table has the staxids column
    chunksize,        \* --chunksize
    rows_read,        \* rows pd.read_csv has handed out so far
    leftover,         \* the reader's local: row numbers carried over
    tasks,            \* the chunks yielded, each a list of row numbers
    collected,        \* tasks whose result has been merged (line 142)
    query_to_taxids,  \* query id -> the ids merged so far
    written,          \* the output file: query id -> the ids of its line
    stage             \* "read", "collect", "written"

\* ------------------------------------------ get_nr_mrca_parallel: state
VARIABLES
    lines,            \* infile.readlines(), each line split on ";"
    threads,          \* --threads
    futures,          \* per line: "pending", "running" or the outcome
    lca_cache,        \* the arguments cached by cached_taxonkit_lca
    lineage_cache,    \* the arguments cached by cached_taxonkit_lineage
    outfile,          \* the lines written to the output file
    lca_stage         \* "map" (line 64-65), "done", "aborted"

mvars == <<pc, tree_file, tree, modified, anchor_node, method, fields_read, taxids, mrca,
           metric, observed_leaves, results, mrca_count, lca_calls, stdout,
           output_tree, output_file>>

cvars == <<original_tree, mapping_dict, levels_up, include_topology, line,
           old_out_f, new_out_f, console, lines_read>>

evars == <<table, use_taxid, chunksize, rows_read, leftover, tasks, collected,
           query_to_taxids, written, stage>>

lvars == <<lines, threads, futures, lca_cache, lineage_cache, outfile, lca_stage>>

vars == <<mvars, cvars, evars, lvars>>

Methods == {"species_percentage", "node_activation"}

\* the ids a row may hold: names of the tree, "X" for an id that no node
\* bears, and the two sentinels
CandIds(t) == (Range(t.name) \cap {"A", "C", "D"}) \cup {"X"} \cup Sentinels

\* row[1].split() of a row that fits in what is left of the taxid file:
\* any list of ids, the empty one included
CandLists(t, room) == IF room < 1 THEN {} ELSE SeqsUpTo(CandIds(t), room - 1)

NoTree == [parent |-> <<>>, name |-> <<>>]

Fresh ==
    /\ pc = "start"
    /\ tree = NoTree
    /\ modified = FALSE
    /\ anchor_node = 0
    /\ method = ""
    /\ fields_read = 0
    /\ taxids = <<>>
    /\ mrca = 0
    /\ metric = Flag("")
    /\ observed_leaves = {}
    /\ results = <<>>
    /\ mrca_count = <<>>
    /\ lca_calls = 0
    /\ stdout = <<>>
    /\ output_file = <<>>

\* the collapse filter has not been started
CollapseIdle ==
    /\ original_tree = NoTree
    /\ mapping_dict = <<>>
    /\ levels_up = 0
    /\ include_topology = FALSE
    /\ line = <<>>
    /\ old_out_f = <<>>
    /\ new_out_f = <<>>
    /\ console = <<>>
    /\ lines_read = 0

\* the extraction has not been started
ExtractIdle ==
    /\ table = <<>>
    /\ use_taxid = FALSE
    /\ chunksize = 0
    /\ rows_read = 0
    /\ leftover = <<>>
    /\ tasks = <<>>
    /\ collected = 0
    /\ query_to_taxids = <<>>
    /\ written = <<>>
    /\ stage = "idle"

\* the batch LCA has not been started
LcaIdle ==
    /\ lines = <<>>
    /\ threads = 0
    /\ futures = <<>>
    /\ lca_cache = {}
    /\ lineage_cache = {}
    /\ outfile = <<>>
    /\ lca_stage = "idle"

Init ==
    /\ Fresh
    /\ tree_file \in Trees
    /\ output_tree = <<>>
    /\ CollapseIdle
    /\ ExtractIdle
    /\ LcaIdle

\* lines 38-52: load the tree, name the unnamed nodes, find the anchor.
\* An anchor name that no node bears raises before any query is handled.
Load ==
    /\ pc = "start"
    /\ LET a == assign_internal_node_names(tree_file)
       IN /\ tree' = a.tree
          /\ modified' = a.modified
          /\ stdout' = IF a.modified THEN stdout
                       ELSE Append(stdout, "All internal nodes are already annotated. No need to rewrite the tree.")
          /\ \E anchor_specie \in Range(a.tree.name) \ {""} :
                anchor_node' = SearchFirst(a.tree, anchor_specie)
    /\ method' \in Methods
    /\ pc' = "loop"
    /\ UNCHANGED <<tree_file, fields_read, taxids, mrca, metric, observed_leaves,
                   results, mrca_count, lca_calls, output_tree, output_file>>
    /\ UNCHANGED <<cvars, evars, lvars>>

Qseqid == "q" \o ToString(Len(results) + 1)

\* lines 75-129
Resolve(valid_taxids) ==
    LET flat_taxa == Flatten(Taxa(tree, anchor_node, valid_taxids))
        m == get_common_ancestor(tree, flat_taxa)
        obs == ObservedLeaves(tree, valid_taxids)
        nm == tree.name[m]
    IN /\ mrca' = m
       /\ lca_calls' = lca_calls + 1
       /\ observed_leaves' = obs
       /\ stdout' = stdout \o NotFoundWarnings(tree, valid_taxids)
       /\ metric' = IF method = "species_percentage"
                    THEN Flag(SpeciesPercentage(tree, m, obs))
                    ELSE Vector(Activation(tree, PathToMrca(tree, anchor_node, m), {}, obs))
       /\ results' = Append(results, <<Qseqid, nm, metric'>>)
       /\ mrca_count' = IF nm \in DOMAIN mrca_count
                        THEN [mrca_count EXCEPT ![nm] = @ + 1]
                        ELSE [k \in DOMAIN mrca_count \cup {nm} |->
                                 IF k = nm THEN 1 ELSE mrca_count[k]]

\* variant: the defaults are missing and the query goes on to line 75
AssignDefault_fallthrough(kind) == Resolve(<<>>)

\* lines 62-73: the two defaults, which `continue` past the counting
AssignDefault(kind) ==
    /\ mrca' = anchor_node
    /\ metric' = Flag("Assigned to focal species (" \o kind \o ")")
    /\ results' = Append(results, <<Qseqid, tree.name[anchor_node], metric'>>)
    /\ stdout' = IF kind = "no_valid_taxid"
                 THEN Append(stdout, "Warning: Query " \o Qseqid \o " hit a synthetic construct or was malformed.")
                 ELSE stdout
    /\ UNCHANGED <<observed_leaves, mrca_count, lca_calls>>

\* one pass of the loop of line 56 over a row of the taxid file
ProcessQuery ==
    /\ pc = "loop"
    /\ \E ids \in CandLists(tree, MaxFields - fields_read) :
         /\ taxids' = ids
         /\ fields_read' = fields_read + 1 + Len(ids)
         /\ LET valid_taxids == Filter(ids, Sentinels)
            IN IF valid_taxids = <<>> /\ \A i \in DOMAIN ids : ids[i] = "no_hit"
               THEN AssignDefault("no_hit")
               ELSE IF valid_taxids = <<>> /\ \A i \in DOMAIN ids : ids[i] = "no_valid_taxid"
               THEN AssignDefault("no_valid_taxid")
               ELSE Resolve(valid_taxids)
    /\ UNCHANGED <<pc, tree_file, tree, modified, anchor_node, method,
                   output_tree, output_file>>
    /\ UNCHANGED <<cvars, evars, lvars>>

\* lines 131-161: the tree is written only if it was modified, then the report
Finish ==
    /\ pc = "loop"
    /\ output_tree' = IF modified THEN <<tree>> ELSE output_tree
    /\ stdout' = IF modified THEN stdout
                 ELSE Append(stdout, "The tree was not modified and will not be rewritten.")
    /\ output_file' = <<<<"qseqid", "mrca",
                          IF method = "species_percentage" THEN "coverage_percentage"
                          ELSE "activation_vector">>, results>>
    /\ pc' = "done"
    /\ UNCHANGED <<tree_file, tree, modified, anchor_node, method, fields_read, taxids,
                   mrca, metric, observed_leaves, results, mrca_count, lca_calls>>
    /\ UNCHANGED <<cvars, evars, lvars>>

\* the script is run again, on the same tree file or on the tree a run wrote
Rerun ==
    /\ pc = "done"
    /\ tree_file' \in {tree_file} \cup Range(output_tree)
    /\ pc' = "start"
    /\ tree' = NoTree
    /\ modified' = FALSE
    /\ anchor_node' = 0
    /\ method' = ""
    /\ fields_read' = 0
    /\ taxids' = <<>>
    /\ mrca' = 0
    /\ metric' = Flag("")
    /\ observed_leaves' = {}
    /\ results' = <<>>
    /\ mrca_count' = <<>>
    /\ lca_calls' = 0
    /\ stdout' = <<>>
    /\ output_file' = <<>>
    /\ UNCHANGED output_tree
    /\ UNCHANGED <<cvars, evars, lvars>>

Next == Load \/ ProcessQuery \/ Finish \/ Rerun

Spec == Init /\ [][Next]_vars

\* ------------------------------------------------- properties of find_mrca
Depth(t, n) == Len(UpChain(t, n))

LastRow == results[Len(results)]

\* a pass of the loop has just appended a row
QueryStep == Len(results') = Len(results) + 1

DefaultFlags == {Flag("Assigned to focal species (" \o s \o ")") : s \in Sentinels}

\* the query handled last went through lines 75-129
LastResolved == results # <<>> /\ metric \notin DefaultFlags

\* the ids of the query handled last that the name index knows
ResolvedIds == (Range(taxids) \ Sentinels) \cap (Range(tree.name) \ {""})

\* C1: whenever a query reaches the LCA computation, the MRCA computed is
\* the anchor or one of its ancestors, and the leaf names under the MRCA
\* include the leaf names under the anchor.
C1_AnchorUnderMrca ==
    [][(QueryStep /\ lca_calls' = lca_calls + 1) =>
          /\ mrca' \in Range(UpChain(tree, anchor_node))
          /\ LeafNames(tree, anchor_node) \subseteq LeafNames(tree, mrca')]_vars

\* a query resolved to a proper ancestor of the anchor below the root
C1_Witness ==
    /\ LastResolved
    /\ lca_calls > 0
    /\ mrca \notin {anchor_node, 1}
    /\ ResolvedIds # {}

\* C2: with at least one candidate id in the name index, the node reported
\* is the deepest node having below it (or being) the anchor and every node
\* that bears a resolved candidate name; on the scenario tree with anchor A
\* and candidates C and D the row reads Root, 0.50.
C2_DeepestCommonAncestor ==
    (results # <<>> /\ ResolvedIds # {}) =>
        LET targets == {anchor_node} \cup {n \in Nodes(tree) : tree.name[n] \in ResolvedIds}
            common == {n \in Nodes(tree) : targets \subseteq Subtree(tree, n)}
        IN /\ mrca \in common
           /\ \A n \in common : Depth(tree, n) <= Depth(tree, mrca)
           /\ LastRow[2] = tree.name[mrca]
           /\ (/\ tree = ScenarioTree
               /\ anchor_node = 4
               /\ Range(taxids) = {"C", "D"}
               /\ method = "species_percentage")
              => (LastRow[2] = "Root" /\ LastRow[3] = Flag("0.50"))

\* the scenario has been run
C2_Witness ==
    /\ results # <<>>
    /\ tree = ScenarioTree
    /\ tree.name[anchor_node] = "A"
    /\ taxids = <<"C", "D">>
    /\ method = "species_percentage"

\* a candidate name borne by two nodes was resolved
C2_WitnessDuplicate ==
    /\ results # <<>>
    /\ \E n, m \in Nodes(tree) :
          n # m /\ tree.name[n] = tree.name[m] /\ tree.name[n] \in ResolvedIds
    /\ mrca # anchor_node

\* C3: a query whose candidates are all no_hit, or all no_valid_taxid, gets
\* the anchor as MRCA with the flag of that sentinel as metric, and the LCA
\* computation is not run for it.
C3_DefaultsGiveAnchor ==
    [][\A s \in Sentinels :
          (QueryStep /\ taxids' # <<>> /\ Range(taxids') = {s}) =>
             /\ mrca' = anchor_node
             /\ metric' = Flag("Assigned to focal species (" \o s \o ")")
             /\ results'[Len(results')] =
                   <<"q" \o ToString(Len(results')), tree.name[anchor_node], metric'>>
             /\ lca_calls' = lca_calls]_vars

\* an all-no_valid_taxid query was handled with an anchor that is not the root
C3_Witness ==
    /\ results # <<>>
    /\ taxids = <<"no_valid_taxid", "no_valid_taxid">>
    /\ anchor_node # 1
    /\ LastRow[2] = tree.name[anchor_node]

Ratios == {Format2f(k, 100) : k \in 0..100}

\* C4: the species_percentage metric lies in [0.0, 1.0], and it is 1.0
\* whenever the MRCA computed is the anchor.
C4_RatioOneAtAnchor ==
    (LastResolved /\ method = "species_percentage") =>
        /\ metric.text \in Ratios
        /\ mrca = anchor_node => metric.text = "1.00"

\* C5: the activation vector has one entry per node of the path from the
\* anchor up to the MRCA (edges plus one), each entry a fraction in [0, 1].
C5_VectorLength ==
    (LastResolved /\ method = "node_activation") =>
        /\ Len(metric.vector) = (Depth(tree, anchor_node) - Depth(tree, mrca)) + 1
        /\ \A i \in DOMAIN metric.vector :
              /\ metric.vector[i][2] >= 1
              /\ 0 <= metric.vector[i][1]
              /\ metric.vector[i][1] <= metric.vector[i][2]

\* a vector over a path of two edges with an entry strictly between 0 and 1
C5_Witness ==
    /\ LastResolved
    /\ method = "node_activation"
    /\ Len(metric.vector) = 3
    /\ \E i \in DOMAIN metric.vector :
          0 < metric.vector[i][1] /\ metric.vector[i][1] < metric.vector[i][2]

\* C6: on a tree whose internal nodes are all named the naming pass changes
\* no name and returns False; a run that reads the tree a modifying run has
\* written changes nothing either; and a run that did not modify the tree
\* leaves the output tree file as it was.
C6_NamingIdempotent ==
    [][/\ (pc = "start" /\ pc' = "loop") =>
            /\ (\A n \in Nodes(tree_file) :
                   (\E m \in Nodes(tree_file) : tree_file.parent[m] = n)
                       => tree_file.name[n] # "")
               => (tree' = tree_file /\ ~modified')
            /\ tree_file \in Range(output_tree) => (tree' = tree_file /\ ~modified')
       /\ (pc = "loop" /\ pc' = "done" /\ ~modified) => output_tree' = output_tree]_vars

\* the second run has read the tree the first one named and written
C6_Witness ==
    /\ pc = "done"
    /\ tree_file \in Range(output_tree)
    /\ \E n \in Nodes(tree_file) : tree_file.name[n] = "Internal_2"
    /\ ~modified

\* C10: a candidate id without an index entry is reported and left out of
\* the LCA computation, and a query left without any indexed candidate gets
\* the anchor with the no_valid_taxid flag.
C10_NoIndexedCandidateDefaults ==
    (results # <<>> /\ Range(taxids) \ Sentinels # {}) =>
        /\ \A tid \in (Range(taxids) \ Sentinels) \ Range(tree.name) :
              \E i \in DOMAIN stdout :
                 stdout[i] = "Warning: taxid " \o tid \o " not found in taxon_nodes"
        /\ ResolvedIds = {} =>
              /\ mrca = anchor_node
              /\ metric = Flag("Assigned to focal species (no_valid_taxid)")

\* a list that holds a sentinel next to a real id, or both sentinels
Mixed(ids) ==
    \/ Range(ids) \cap Sentinels # {} /\ Range(ids) \ Sentinels # {}
    \/ Sentinels \subseteq Range(ids)

\* C11: a candidate list that mixes a sentinel with real ids, or no_hit with
\* no_valid_taxid, is rejected: the query never gets a row computed by the
\* LCA, that is a row with a ratio or an activation vector.
C11_MixedListsRejected ==
    (results # <<>> /\ Mixed(taxids)) => ~LastResolved

\* the nodes of the tree file that have no name, in traversal order
RECURSIVE Unnamed(_, _)
Unnamed(t, i) ==
    IF i > Len(t.name) THEN <<>>
    ELSE (IF t.name[i] = "" THEN <<i>> ELSE <<>>) \o Unnamed(t, i + 1)

\* C16: after the naming pass node names are unique: the k-th unnamed node
\* of the traversal is named Internal_k, and no two nodes of the tree bear
\* the same name.
C16_NamesUniqueAfterPass ==
    [][(pc = "start" /\ pc' = "loop") =>
          LET unnamed == Unnamed(tree_file, 1)
          IN /\ \A k \in DOMAIN unnamed :
                   tree'.name[unnamed[k]] = "Internal_" \o ToString(k)
             /\ \A n, m \in Nodes(tree') : n # m => tree'.name[n] # tree'.name[m]]_vars

\* the nodes from the anchor up to the MRCA, the anchor first
AnchorPath ==
    SubSeq(UpChain(tree, anchor_node), 1,
           (Depth(tree, anchor_node) - Depth(tree, mrca)) + 1)

\* the leaf names under the nodes that bear a resolved candidate id
ObservedByCandidates ==
    UNION {LeafNames(tree, n) : n \in {x \in Nodes(tree) : tree.name[x] \in ResolvedIds}}

\* the leaf names under path node i that are under no earlier path node
NewLeaves(i) ==
    LeafNames(tree, AnchorPath[i]) \ UNION {LeafNames(tree, AnchorPath[j]) : j \in 1..(i - 1)}

\* C17: entry i of the activation vector, the anchor first and the MRCA
\* last, is the fraction of the leaves under path node i and under no
\* earlier path node that are observed; a node that brings no new leaf
\* has the entry 0 and is not skipped.
C17_ActivationEntries ==
    (LastResolved /\ method = "node_activation") =>
        /\ DOMAIN metric.vector = DOMAIN AnchorPath
        /\ \A i \in DOMAIN metric.vector :
              IF NewLeaves(i) = {}
              THEN metric.vector[i][1] = 0
              ELSE metric.vector[i] =
                      <<Cardinality(NewLeaves(i) \cap ObservedByCandidates),
                        Cardinality(NewLeaves(i))>>

\* a vector with a node that brings no new leaf after the anchor
C17_Witness ==
    /\ LastResolved
    /\ method = "node_activation"
    /\ Len(metric.vector) >= 2
    /\ \E i \in 2..Len(metric.vector) : NewLeaves(i) = {} /\ metric.vector[i][1] = 0

\* ---------------------------------------------- get_nr_subtree: operators
\* "\t".join(fields)
RECURSIVE JoinTab(_)
JoinTab(fields) ==
    IF Len(fields) = 0 THEN ""
    ELSE IF Len(fields) = 1 THEN fields[1]
    ELSE fields[1] \o "\t" \o JoinTab(Tail(fields))

\* {node.name: node for node in tree.traverse()}: the last node of the
\* traversal bearing a name keeps the key
original_nodes(t) ==
    [nm \in Range(t.name) |->
        CHOOSE n \in Nodes(t) :
            t.name[n] = nm /\ \A m \in Nodes(t) : t.name[m] = nm => m <= n]

\* What a call leaves behind: the records written to the old and to the
\* new output, and the message returned (<<>> for None).
Outcome(old, new, result) == [old |-> old, new |-> new, result |-> result]

\* variant: a name without a mapping entry is written as it stands
process_old_mrca_logged(qseqid, mrca_name, mapping) ==
    IF mrca_name \notin DOMAIN mapping
    THEN Outcome(<<<<qseqid, mrca_name>>>>, <<>>,
                 <<JoinTab(<<qseqid, mrca_name, "Not found in mapping">>)>>)
    ELSE Outcome(<<<<qseqid, mapping[mrca_name][1]>>>>, <<>>, <<>>)

process_old_mrca(qseqid, mrca_name, mapping) ==
    IF mrca_name \notin DOMAIN mapping
    THEN Outcome(<<>>, <<>>, <<JoinTab(<<qseqid, mrca_name, "Not found in mapping">>)>>)
    ELSE Outcome(<<<<qseqid, mapping[mrca_name][1]>>>>, <<>>, <<>>)

process_new_mrca(qseqid, mrca_key, topology, mapping) ==
    IF mrca_key \notin DOMAIN mapping
    THEN Outcome(<<>>, <<>>, <<JoinTab(<<qseqid, mrca_key, "Not found in mapping">>)>>)
    ELSE LET taxon_name == mapping[mrca_key][1]
             taxid == mapping[mrca_key][2]
         IN IF topology
            THEN Outcome(<<>>, <<<<qseqid, taxon_name, taxid, "NA">>>>, <<>>)
            ELSE Outcome(<<>>, <<<<qseqid, taxon_name, taxid>>>>, <<>>)

\* variant: the loop makes one step too few
RECURSIVE LiftSteps_short(_, _, _)
LiftSteps_short(t, current_node, k) ==
    IF k <= 1 THEN current_node
    ELSE IF t.parent[current_node] = 0 \/ t.name[t.parent[current_node]] = ""
         THEN 0
         ELSE LiftSteps_short(t, t.parent[current_node], k - 1)

\* lines 66-71: k steps upwards; 0 when a step finds no parent or an
\* unnamed one (the early return of line 70)
RECURSIVE LiftSteps(_, _, _)
LiftSteps(t, current_node, k) ==
    IF k <= 0 THEN current_node
    ELSE IF t.parent[current_node] = 0 \/ t.name[t.parent[current_node]] = ""
         THEN 0
         ELSE LiftSteps(t, t.parent[current_node], k - 1)

\* variant: the field count is not checked, a line with two fields or
\* more is handled by its first two
process_line_no_count(parts, t, topology, mapping, lv) ==
    IF Len(parts) < 2
    THEN Outcome(<<>>, <<>>, <<"Malformed line: " \o JoinTab(parts)>>)
    ELSE LET qseqid == parts[1]
             mrca_name == parts[2]
         IN IF mrca_name \notin DOMAIN original_nodes(t)
            THEN Outcome(<<>>, <<>>, <<"MRCA " \o mrca_name \o " not found in the tree.">>)
            ELSE LET mrca_node == original_nodes(t)[mrca_name]
                     current_node == LiftSteps(t, mrca_node, lv)
                     mrca_plusN_key == t.name[current_node]
                 IN IF current_node = 0
                    THEN process_old_mrca(qseqid, mrca_name, mapping)
                    ELSE IF /\ mrca_plusN_key \in DOMAIN mapping
                            /\ mapping[mrca_plusN_key][1] = "Eukaryota"
                    THEN process_old_mrca(qseqid, mrca_name, mapping)
                    ELSE process_new_mrca(qseqid, mrca_plusN_key, topology, mapping)

\* lines 52-85; parts is line.strip().split("\t")
process_line(parts, t, topology, mapping, lv) ==
    IF Len(parts) # 3
    THEN Outcome(<<>>, <<>>, <<"Malformed line: " \o JoinTab(parts)>>)
    ELSE LET qseqid == parts[1]
             mrca_name == parts[2]
         IN IF mrca_name \notin DOMAIN original_nodes(t)
            THEN Outcome(<<>>, <<>>, <<"MRCA " \o mrca_name \o " not found in the tree.">>)
            ELSE LET mrca_node == original_nodes(t)[mrca_name]
                     current_node == LiftSteps(t, mrca_node, lv)
                     mrca_plusN_key == t.name[current_node]
                 IN IF current_node = 0
                    THEN process_old_mrca(qseqid, mrca_name, mapping)
                    ELSE IF /\ mrca_plusN_key \in DOMAIN mapping
                            /\ mapping[mrca_plusN_key][1] = "Eukaryota"
                    THEN process_old_mrca(qseqid, mrca_name, mapping)
                    ELSE process_new_mrca(qseqid, mrca_plusN_key, topology, mapping)

\* ------------------------------------------------ get_nr_subtree: machine
MapKeys == {"A", "N1", "Root"}

MapValues == {<<"Eukaryota", "2759">>, <<"Clade1", "100">>}

\* load_mapping: any mapping over names of the tree
Mappings(t) ==
    UNION {[D -> MapValues] : D \in SUBSET (MapKeys \cap Range(t.name))}

LineNames == {"A", "N1", "Root", "Z"}

\* the fields of an input line: well-formed ones and ones with a field
\* missing or in excess
InputLines(qseqid) ==
    {<<qseqid, nm, "0.50">> : nm \in LineNames}
        \cup {<<qseqid, "A">>, <<qseqid, "A", "0.50", "0.50">>}

\* lines 90-98 done: tree and mapping loaded, outputs opened, header skipped
InitCollapse ==
    /\ pc = "collapse"
    /\ tree_file = NoTree
    /\ tree = NoTree
    /\ modified = FALSE
    /\ anchor_node = 0
    /\ method = ""
    /\ fields_read = 0
    /\ taxids = <<>>
    /\ mrca = 0
    /\ metric = Flag("")
    /\ observed_leaves = {}
    /\ results = <<>>
    /\ mrca_count = <<>>
    /\ lca_calls = 0
    /\ stdout = <<>>
    /\ output_tree = <<>>
    /\ output_file = <<>>
    /\ original_tree \in Trees
    /\ mapping_dict \in Mappings(original_tree)
    /\ levels_up \in 0..MaxLevels
    /\ include_topology \in BOOLEAN
    /\ line = <<>>
    /\ old_out_f = <<>>
    /\ new_out_f = <<>>
    /\ console = <<>>
    /\ lines_read = 0
    /\ ExtractIdle
    /\ LcaIdle

\* lines 99-102: one input line
ProcessLine ==
    /\ pc = "collapse"
    /\ lines_read < MaxLines
    /\ \E parts \in InputLines("q" \o ToString(lines_read + 1)) :
         LET r == process_line(parts, original_tree, include_topology,
                               mapping_dict, levels_up)
         IN /\ line' = parts
            /\ old_out_f' = old_out_f \o r.old
            /\ new_out_f' = new_out_f \o r.new
            /\ console' = console \o r.result
    /\ lines_read' = lines_read + 1
    /\ UNCHANGED <<original_tree, mapping_dict, levels_up, include_topology>>
    /\ UNCHANGED <<mvars, evars, lvars>>

NextCollapse == ProcessLine

SpecCollapse == InitCollapse /\ [][NextCollapse]_vars

\* -------------------------------------------- properties of the collapse
\* an input line has just been handled
LineStep == lines_read' = lines_read + 1

\* the line has three fields and names a node of the tree
KnownMrca(parts) == Len(parts) = 3 /\ parts[2] \in Range(original_tree.name)

\* the node the name of the line stands for, and its chain to the root
StartChain(parts) ==
    UpChain(original_tree,
            CHOOSE n \in Nodes(original_tree) :
                /\ original_tree.name[n] = parts[2]
                /\ \A m \in Nodes(original_tree) :
                      original_tree.name[m] = parts[2] => m <= n)

\* all levels_up steps can be made: each of them finds a named parent
Lifted(parts) ==
    /\ KnownMrca(parts)
    /\ Len(StartChain(parts)) > levels_up
    /\ \A j \in 2..(levels_up + 1) : original_tree.name[StartChain(parts)[j]] # ""

\* the name of the node reached after the lifting
LiftedKey(parts) == original_tree.name[StartChain(parts)[levels_up + 1]]

\* C7: when the node reached after lifting is mapped to "Eukaryota", the
\* query gets a record in the old output and none in the new output.
C7_SentinelIsLegacy ==
    [][(/\ LineStep
        /\ Lifted(line')
        /\ LiftedKey(line') \in DOMAIN mapping_dict
        /\ mapping_dict[LiftedKey(line')][1] = "Eukaryota") =>
          /\ Len(old_out_f') = Len(old_out_f) + 1
          /\ old_out_f'[Len(old_out_f')][1] = line'[1]
          /\ new_out_f' = new_out_f]_vars

\* C8: when the node reached after lifting is mapped to a label other than
\* "Eukaryota", the query gets a record in the new output bearing that
\* node's label and id (and none in the old output); with N1 mapped to
\* (Clade1, 100), MRCA A and one level it is Clade1, 100.
C8_SpecificIsNew ==
    [][(/\ LineStep
        /\ Lifted(line')
        /\ LiftedKey(line') \in DOMAIN mapping_dict
        /\ mapping_dict[LiftedKey(line')][1] # "Eukaryota") =>
          LET entry == mapping_dict[LiftedKey(line')]
              rec == new_out_f'[Len(new_out_f')]
          IN /\ Len(new_out_f') = Len(new_out_f) + 1
             /\ SubSeq(rec, 1, 3) = <<line'[1], entry[1], entry[2]>>
             /\ old_out_f' = old_out_f
             /\ console' = console
             /\ (/\ original_tree = ScenarioTree
                 /\ line'[2] = "A"
                 /\ levels_up = 1
                 /\ mapping_dict["N1"] = <<"Clade1", "100">>)
                => SubSeq(rec, 1, 3) = <<line'[1], "Clade1", "100">>]_vars

\* the scenario: A lifted one level to N1, Root not in the mapping
C8_Witness ==
    /\ lines_read = 1
    /\ original_tree = ScenarioTree
    /\ line = <<"q1", "A", "0.50">>
    /\ levels_up = 1
    /\ DOMAIN mapping_dict = {"N1"}
    /\ mapping_dict["N1"] = <<"Clade1", "100">>
    /\ new_out_f # <<>>

\* the legacy path taken by a query: nothing for it in the new output, and
\* the label of its original MRCA, if the mapping has one, in the old output
LegacyEffect(parts) ==
    /\ new_out_f' = new_out_f
    /\ parts[2] \in DOMAIN mapping_dict =>
          old_out_f' = Append(old_out_f, <<parts[1], mapping_dict[parts[2]][1]>>)

\* C9: when the node reached after lifting is not in the mapping, the query
\* goes down the legacy path: with Root unmapped, a query lifted to Root is
\* recorded in the old output under its original MRCA.
C9_UnmappedIsLegacy ==
    [][(/\ LineStep
        /\ Lifted(line')
        /\ LiftedKey(line') \notin DOMAIN mapping_dict) => LegacyEffect(line')]_vars

\* the message the filter prints for a line whose field count is not three
MalformedMessage(parts) == "Malformed line: " \o JoinTab(parts)

\* a line handled earlier was malformed
MalformedSeen ==
    \E i \in DOMAIN console : \E k \in 1..lines_read :
        \E parts \in InputLines("q" \o ToString(k)) :
            Len(parts) # 3 /\ console[i] = MalformedMessage(parts)

\* C14: a line whose field count is not three is logged and writes nothing
\* to either output, and the lines after it are still handled: one whose
\* lifted node and original MRCA are both mapped gets its record.
C14_MalformedSkipped ==
    [][/\ (LineStep /\ Len(line') # 3) =>
            /\ old_out_f' = old_out_f
            /\ new_out_f' = new_out_f
            /\ console' = Append(console, MalformedMessage(line'))
       /\ (/\ LineStep
           /\ MalformedSeen
           /\ Lifted(line')
           /\ {LiftedKey(line'), line'[2]} \subseteq DOMAIN mapping_dict) =>
            /\ Len(old_out_f') + Len(new_out_f') = Len(old_out_f) + Len(new_out_f) + 1
            /\ console' = console]_vars

\* a line with two fields was skipped and the next line got its record
C14_Witness ==
    /\ lines_read = 2
    /\ console = <<MalformedMessage(<<"q1", "A">>)>>
    /\ line[1] = "q2"
    /\ Len(old_out_f) + Len(new_out_f) = 1

\* C18: when a lifting step finds no parent or an unnamed one, the lifting
\* stops and the query is recorded in the old output under the label of
\* its original MRCA; it is neither dropped nor a failure.
C18_LiftStopIsLegacy ==
    [][(LineStep /\ KnownMrca(line') /\ ~Lifted(line')) =>
          /\ new_out_f' = new_out_f
          /\ Len(old_out_f') = Len(old_out_f) + 1
          /\ old_out_f'[Len(old_out_f')][1] = line'[1]
          /\ line'[2] \in DOMAIN mapping_dict =>
                old_out_f'[Len(old_out_f')][2] = mapping_dict[line'[2]][1]]_vars

\* C20: one input line adds at most one record to the two outputs taken
\* together, and a line that yields a diagnostic adds none.
C20_AtMostOneRecord ==
    [][LineStep =>
          /\ Len(old_out_f') >= Len(old_out_f)
          /\ Len(new_out_f') >= Len(new_out_f)
          /\ SubSeq(old_out_f', 1, Len(old_out_f)) = old_out_f
          /\ SubSeq(new_out_f', 1, Len(new_out_f)) = new_out_f
          /\ (Len(old_out_f') - Len(old_out_f)) + (Len(new_out_f') - Len(new_out_f)) <= 1
          /\ console' # console => (old_out_f' = old_out_f /\ new_out_f' = new_out_f)]_vars

\* a line naming a node of the tree ended in a diagnostic after a line that
\* was recorded
C20_Witness ==
    /\ lines_read = 2
    /\ KnownMrca(line)
    /\ Len(console) = 1
    /\ Len(old_out_f) + Len(new_out_f) = 1

\* ------------------------- extract_taxid_optimized_parallel: operators
\* the evalues of the model are whole numbers, and a whole number is below
\* the default --evalue_filter, 1e-4, exactly when it is below 1
evalue_filter == 1

\* the evalue that marks a query without hit
no_hit_evalue == -1

\* sorted() puts the ids the model uses in this order
IdOrder == <<"*", "0", "9606", "Hsap_p1", "no_hit", "no_valid_taxid">>

sorted(S) == SelectSeq(IdOrder, LAMBDA x : x \in S)

\* the query ids of the rows a chunk holds
Queries(chunk) == {table[chunk[k]].qseqid : k \in DOMAIN chunk}

\* variant: only the last row of the chunk is carried over
incomplete_rows_last(chunk) == <<chunk[Len(chunk)]>>

\* lines 34-35: the rows of the query the chunk ends with
incomplete_rows(chunk) ==
    LET last_query == table[chunk[Len(chunk)]].qseqid
    IN SelectSeq(chunk, LAMBDA i : table[i].qseqid = last_query)

\* line 41: the rows of the other queries
complete_rows(chunk) ==
    LET last_query == table[chunk[Len(chunk)]].qseqid
    IN SelectSeq(chunk, LAMBDA i : table[i].qseqid # last_query)

\* lines 62-71: the row tells that its query has no hit. staxids is held
\* as the list str.split(";") makes of the field, <<"">> for an empty one
NoHitRow(r, by_taxid) ==
    IF by_taxid
    THEN r.staxids \in {<<"">>, <<"0">>} /\ r.evalue = no_hit_evalue
    ELSE r.sseqid = "*" /\ r.evalue = no_hit_evalue

\* lines 99-101: the synthetic-construct id is dropped, and a field left
\* without any id becomes the sentinel
CleanStaxids(items) ==
    LET kept == SelectSeq(items, LAMBDA x : x # "32630")
    IN IF kept = <<>> THEN <<"no_valid_taxid">> ELSE kept

\* line 104: the regular expression _[^_]*@ -> _ on the subject ids used
CleanSseqid(sseqid) == IF sseqid = "Hsap_g1@p1" THEN "Hsap_p1" ELSE sseqid

\* lines 109-114: the non-blank items of the rows of one query
flat_values(rows, by_taxid) ==
    IF by_taxid
    THEN UNION {Range(CleanStaxids(table[rows[k]].staxids)) : k \in DOMAIN rows} \ {""}
    ELSE {CleanSseqid(table[rows[k]].sseqid) : k \in DOMAIN rows} \ {""}

\* lines 53-120: query id -> the set of ids of the chunk's result
process_chunk(chunk, by_taxid, filter) ==
    LET no_hit_queries ==
            Queries(SelectSeq(chunk, LAMBDA i : NoHitRow(table[i], by_taxid)))
        hits == SelectSeq(chunk, LAMBDA i : ~NoHitRow(table[i], by_taxid))
        all_queries == Queries(hits)
        valid == SelectSeq(hits, LAMBDA i : table[i].evalue < filter)
        remaining_queries == Queries(valid)
    IN [query_id \in no_hit_queries \cup all_queries |->
           IF query_id \in remaining_queries
           THEN LET group == SelectSeq(valid, LAMBDA i : table[i].qseqid = query_id)
                IN IF flat_values(group, by_taxid) # {}
                   THEN flat_values(group, by_taxid)
                   ELSE {"no_valid_taxid"}
           ELSE {"no_hit"}]

\* lines 144-145: extend per query; the set() of line 149 makes the order
\* and the repetitions of the merged list immaterial
Merge(acc, result) ==
    [query_id \in DOMAIN acc \cup DOMAIN result |->
        (IF query_id \in DOMAIN acc THEN acc[query_id] ELSE {})
            \cup (IF query_id \in DOMAIN result THEN result[query_id] ELSE {})]

\* --------------------------- extract_taxid_optimized_parallel: machine
QueryIds == {"q1", "q2"}

Evalues == {no_hit_evalue, 0, evalue_filter}

\* rows of a 13-column table and of a 12-column one
TaxidRows ==
    {[qseqid |-> q, sseqid |-> "s1", evalue |-> e, staxids |-> x] :
        q \in QueryIds, e \in Evalues,
        x \in {<<"">>, <<"0">>, <<"32630">>, <<"9606">>}}

SseqidRows ==
    {[qseqid |-> q, sseqid |-> x, evalue |-> e, staxids |-> <<>>] :
        q \in QueryIds, e \in Evalues, x \in {"*", "", "Hsap_g1@p1"}}

FindMrcaIdle ==
    /\ tree_file = NoTree
    /\ tree = NoTree
    /\ modified = FALSE
    /\ anchor_node = 0
    /\ method = ""
    /\ fields_read = 0
    /\ taxids = <<>>
    /\ mrca = 0
    /\ metric = Flag("")
    /\ observed_leaves = {}
    /\ results = <<>>
    /\ mrca_count = <<>>
    /\ lca_calls = 0
    /\ stdout = <<>>
    /\ output_tree = <<>>
    /\ output_file = <<>>

\* line 125 done: a table with at least one row, its kind detected
InitExtract ==
    /\ pc = "extract"
    /\ FindMrcaIdle
    /\ CollapseIdle
    /\ LcaIdle
    /\ use_taxid \in BOOLEAN
    /\ table \in SeqsUpTo(IF use_taxid THEN TaxidRows ELSE SseqidRows, MaxRows) \ {<<>>}
    /\ chunksize \in 1..MaxRows
    /\ rows_read = 0
    /\ leftover = <<>>
    /\ tasks = <<>>
    /\ collected = 0
    /\ query_to_taxids = <<>>
    /\ written = <<>>
    /\ stage = "read"

\* lines 29-46 and 139: one pass of the reader's loop, the chunk it yields
\* being submitted to the pool
ReadChunk ==
    /\ stage = "read"
    /\ rows_read < Len(table)
    /\ LET upto == IF rows_read + chunksize < Len(table)
                   THEN rows_read + chunksize ELSE Len(table)
           chunk == leftover \o [k \in 1..(upto - rows_read) |-> rows_read + k]
       IN /\ rows_read' = upto
          /\ leftover' = incomplete_rows(chunk)
          /\ tasks' = Append(tasks, complete_rows(chunk))
    /\ UNCHANGED <<table, use_taxid, chunksize, collected, query_to_taxids, written, stage>>
    /\ UNCHANGED <<mvars, cvars, lvars>>

\* lines 48-50: the table is exhausted, the rows carried over are yielded
EndRead ==
    /\ stage = "read"
    /\ rows_read = Len(table)
    /\ tasks' = IF leftover # <<>> THEN Append(tasks, leftover) ELSE tasks
    /\ stage' = "collect"
    /\ UNCHANGED <<table, use_taxid, chunksize, rows_read, leftover, collected,
                   query_to_taxids, written>>
    /\ UNCHANGED <<mvars, cvars, lvars>>

\* lines 142-145: the result of the next task is merged. process_chunk
\* reads nothing but its arguments, so when its worker ran does not matter
Collect ==
    /\ stage = "collect"
    /\ collected < Len(tasks)
    /\ query_to_taxids' =
          Merge(query_to_taxids,
                process_chunk(tasks[collected + 1], use_taxid, evalue_filter))
    /\ collected' = collected + 1
    /\ UNCHANGED <<table, use_taxid, chunksize, rows_read, leftover, tasks, written, stage>>
    /\ UNCHANGED <<mvars, cvars, lvars>>

\* lines 148-154: one line per query, its ids sorted and without repetition
WriteOutput ==
    /\ stage = "collect"
    /\ collected = Len(tasks)
    /\ written' = [query_id \in DOMAIN query_to_taxids |-> sorted(query_to_taxids[query_id])]
    /\ stage' = "written"
    /\ UNCHANGED <<table, use_taxid, chunksize, rows_read, leftover, tasks, collected,
                   query_to_taxids>>
    /\ UNCHANGED <<mvars, cvars, lvars>>

NextExtract == ReadChunk \/ EndRead \/ Collect \/ WriteOutput

SpecExtract == InitExtract /\ [][NextExtract]_vars

\* ------------------------------------------ properties of the extraction
\* C12: every line the extraction writes holds either real ids only (at
\* least one), or no_hit alone, or no_valid_taxid alone.
C12_ListsWellFormed ==
    stage = "written" =>
        \A query_id \in DOMAIN written :
            \/ written[query_id] # <<>> /\ Range(written[query_id]) \cap Sentinels = {}
            \/ written[query_id] = <<"no_hit">>
            \/ written[query_id] = <<"no_valid_taxid">>

\* the rows of each query follow one another in the table
Contiguous ==
    \A i, j, k \in DOMAIN table :
        (i < j /\ j < k /\ table[i].qseqid = table[k].qseqid)
            => table[j].qseqid = table[i].qseqid

\* the places of the yielded chunks where row i stands
Yields(i) ==
    {<<c, k>> \in (DOMAIN tasks) \X (DOMAIN table) :
        k \in DOMAIN tasks[c] /\ tasks[c][k] = i}

\* the yielded chunks that hold a row of the query
ChunksOf(q) == {c \in DOMAIN tasks : q \in Queries(tasks[c])}

\* C13: when the rows of each query are contiguous, whatever the chunk
\* size, a yielded chunk holds all the rows of each query it holds, no
\* query is in two chunks and no row is yielded twice; once the reader is
\* done every row has been yielded exactly once.
C13_GroupsKeptWhole ==
    Contiguous =>
        /\ \A i \in DOMAIN table : Cardinality(Yields(i)) <= 1
        /\ \A q \in QueryIds : Cardinality(ChunksOf(q)) <= 1
        /\ \A c \in DOMAIN tasks : \A i \in DOMAIN table :
              table[i].qseqid \in Queries(tasks[c]) => i \in Range(tasks[c])
        /\ stage # "read" => \A i \in DOMAIN table : Cardinality(Yields(i)) = 1

\* a chunk boundary fell between two rows of one query, and the reader is done
C13_Witness ==
    /\ stage = "collect"
    /\ Contiguous
    /\ chunksize < Len(table)
    /\ table[chunksize].qseqid = table[chunksize + 1].qseqid

\* -------------------------------------- get_nr_mrca_parallel: operators
focal_taxid == "7227"

\* what a call of process_line leaves in its future: the line returned, as
\* its tab-separated fields, or the exception raised
Returned(fields) == [state |-> "done", raised |-> FALSE, text |-> fields]

Raised == [state |-> "done", raised |-> TRUE, text |-> <<>>]

Pending == [state |-> "pending", raised |-> FALSE, text |-> <<>>]

Running == [state |-> "running", raised |-> FALSE, text |-> <<>>]

\* the last field of taxonkit's reply to lca, and the last term of the
\* lineage it gives for that id
LcaOf(ids) == "lca(" \o ids \o ")"

LastTermOf(id) == "name(" \o id \o ")"

\* lines 31-56, parts being line.strip().split(";"); lca_ok and lineage_ok
\* tell whether the two subprocesses, if run, return 0. The result holds
\* the future's outcome and the two caches after the call.
lca_process_line(parts, lca_ok, lineage_ok) ==
    IF Len(parts) # 2
    THEN [outcome |-> Raised, lca |-> lca_cache, lineage |-> lineage_cache]
    ELSE LET query == parts[1]
             ids == IF parts[2] \in {"no_hit", "no_valid_taxid"}
                    THEN parts[2]
                    ELSE parts[2] \o " " \o focal_taxid
             mrca_taxid == LcaOf(ids)
         IN IF ids = "no_hit"
            THEN [outcome |-> Returned(<<query, "no MRCA">>),
                  lca |-> lca_cache, lineage |-> lineage_cache]
            ELSE IF ids = "no_valid_taxid"
            THEN [outcome |-> Returned(<<query, "synthetic construct or malformed">>),
                  lca |-> lca_cache, lineage |-> lineage_cache]
            ELSE IF ~(ids \in lca_cache \/ lca_ok)
            THEN [outcome |-> Returned(<<query, "Error">>),
                  lca |-> lca_cache, lineage |-> lineage_cache]
            ELSE IF ~(mrca_taxid \in lineage_cache \/ lineage_ok)
            THEN [outcome |-> Returned(<<query, "Error">>),
                  lca |-> lca_cache \cup {ids}, lineage |-> lineage_cache]
            ELSE [outcome |-> Returned(<<query, LastTermOf(mrca_taxid), mrca_taxid>>),
                  lca |-> lca_cache \cup {ids},
                  lineage |-> lineage_cache \cup {mrca_taxid}]

\* outfile.writelines(results): the results in input order up to the first
\* future that holds an exception
RECURSIVE WrittenBeforeRaise(_, _)
WrittenBeforeRaise(fs, i) ==
    IF i > Len(fs) \/ fs[i].raised THEN <<>>
    ELSE <<fs[i].text>> \o WrittenBeforeRaise(fs, i + 1)

\* ---------------------------------------- get_nr_mrca_parallel: machine
\* the lines of query q: a list of ids, the two sentinels, and a blank line
LcaLineKinds(q) == {<<q, "9606">>, <<q, "no_hit">>, <<q, "no_valid_taxid">>, <<"">>}

LcaInputs ==
    UNION {{ls \in [1..n -> UNION {LcaLineKinds("q" \o ToString(k)) : k \in 1..n}] :
               \A k \in 1..n : ls[k] \in LcaLineKinds("q" \o ToString(k))}
           : n \in 0..MaxLcaLines}

\* lines 60-65 done: the lines read and every call submitted
InitLca ==
    /\ pc = "lca"
    /\ FindMrcaIdle
    /\ CollapseIdle
    /\ ExtractIdle
    /\ lines \in LcaInputs
    /\ threads \in 1..MaxLcaLines
    /\ futures = [i \in DOMAIN lines |-> Pending]
    /\ lca_cache = {}
    /\ lineage_cache = {}
    /\ outfile = <<>>
    /\ lca_stage = "map"

\* a free worker thread takes the oldest call of the queue
StartTask(i) ==
    /\ lca_stage = "map"
    /\ futures[i] = Pending
    /\ \A j \in 1..(i - 1) : futures[j] # Pending
    /\ Cardinality({j \in DOMAIN futures : futures[j] = Running}) < threads
    /\ futures' = [futures EXCEPT ![i] = Running]
    /\ UNCHANGED <<lines, threads, lca_cache, lineage_cache, outfile, lca_stage>>
    /\ UNCHANGED <<mvars, cvars, evars>>

\* a worker thread comes to the end of process_line
FinishTask(i) ==
    /\ lca_stage = "map"
    /\ futures[i] = Running
    /\ \E lca_ok, lineage_ok \in BOOLEAN :
         LET r == lca_process_line(lines[i], lca_ok, lineage_ok)
         IN /\ futures' = [futures EXCEPT ![i] = r.outcome]
            /\ lca_cache' = r.lca
            /\ lineage_cache' = r.lineage
    /\ UNCHANGED <<lines, threads, outfile, lca_stage>>
    /\ UNCHANGED <<mvars, cvars, evars>>

\* lines 64-68: leaving the with block waits for every call, then the
\* results are written; an exception held by a future is raised again there
WriteResults ==
    /\ lca_stage = "map"
    /\ \A i \in DOMAIN futures : futures[i].state = "done"
    /\ outfile' = WrittenBeforeRaise(futures, 1)
    /\ lca_stage' = IF \E i \in DOMAIN futures : futures[i].raised
                    THEN "aborted" ELSE "done"
    /\ UNCHANGED <<lines, threads, futures, lca_cache, lineage_cache>>
    /\ UNCHANGED <<mvars, cvars, evars>>

NextLca ==
    \/ \E i \in DOMAIN futures : StartTask(i)
    \/ \E i \in DOMAIN futures : FinishTask(i)
    \/ WriteResults

SpecLca == InitLca /\ [][NextLca]_vars

\* ------------------------------------------- properties of the batch LCA
\* the run has come to its end, normally or not
LcaEnded == lca_stage \in {"done", "aborted"}

\* C15: a line that fails, because the external tool fails or because the
\* line does not split into a query and an id list, never aborts the run:
\* the run ends normally with a line for every query.
C15_FailuresDoNotAbort ==
    LcaEnded =>
        /\ lca_stage = "done"
        /\ \A i \in DOMAIN lines :
              Len(lines[i]) = 2 =>
                 \E k \in DOMAIN outfile : outfile[k][1] = lines[i][1]

\* C19: whatever the order in which the worker threads run and end, the
\* output holds one line per input line, in the order of the input, and
\* nothing is written while a call is still pending or running.
C19_OneLinePerInputInOrder ==
    /\ outfile # <<>> => \A i \in DOMAIN futures : futures[i].state = "done"
    /\ LcaEnded =>
          /\ Len(outfile) = Len(lines)
          /\ \A i \in DOMAIN lines :
                Len(lines[i]) = 2 => outfile[i][1] = lines[i][1]

====
